---- MODULE Spec2Model ----
(***************************************************************************)
(* Model of the YTM Camelot background service worker (background.js): the *)
(* serial lookup queue, the cache, the MusicBrainz rate limiter and the    *)
(* two providers, together with the options page that stores the API key.  *)
(*                                                                         *)
(* JavaScript strings are sequences of one-character strings, so that the  *)
(* regular expressions and replacements of the source are computed and not *)
(* assumed.  Times are in units of 100 ms (the greatest unit that divides  *)
(* both MB_MIN_INTERVAL_MS and CACHE_TTL_MS), so that the thirty days of   *)
(* the cache TTL stay inside TLC's integers.                               *)
(***************************************************************************)
EXTENDS Integers, Sequences, FiniteSets, TLC

(***************************************************************************)
(* JavaScript values that are not strings or numbers.                      *)
(***************************************************************************)
\* null, for string-valued fields
Null == <<"null">>
\* undefined: a property the message or the response does not carry
Undefined == <<"undefined">>
\* null, for number-valued fields (scores are never negative)
NullNum == 0 - 1
\* null or undefined, where the value would otherwise be an object
NullRec == [null |-> TRUE]

Falsy(v) == v = Null \/ v = Undefined \/ v = <<>>

\* (s || "")
OrEmpty(s) == IF Falsy(s) THEN <<>> ELSE s

(***************************************************************************)
(* Characters.                                                             *)
(***************************************************************************)
LowerChars == <<"a","b","c","d","e","f","g","h","i","j","k","l","m",
                "n","o","p","q","r","s","t","u","v","w","x","y","z">>
UpperChars == <<"A","B","C","D","E","F","G","H","I","J","K","L","M",
                "N","O","P","Q","R","S","T","U","V","W","X","Y","Z">>
DigitChars == {"0","1","2","3","4","5","6","7","8","9"}
\* the characters \s matches, of those the model uses
WhiteChars == {" ", "\t"}
\* U+266D and U+266F
FlatSign == "flat-sign"
SharpSign == "sharp-sign"

IndexIn(seq, c) == CHOOSE i \in 1..Len(seq) : seq[i] = c
IsLower(c) == \E i \in 1..Len(LowerChars) : LowerChars[i] = c
IsUpper(c) == \E i \in 1..Len(UpperChars) : UpperChars[i] = c
ToUpperChar(c) == IF IsLower(c) THEN UpperChars[IndexIn(LowerChars, c)] ELSE c
ToLowerChar(c) == IF IsUpper(c) THEN LowerChars[IndexIn(UpperChars, c)] ELSE c
toUpperCase(s) == [i \in 1..Len(s) |-> ToUpperChar(s[i])]
toLowerCase(s) == [i \in 1..Len(s) |-> ToLowerChar(s[i])]

\* s.replace(/x/g, y) for a one-character pattern
ReplaceChar(s, from, to) == [i \in 1..Len(s) |-> IF s[i] \in from THEN to ELSE s[i]]

RECURSIVE CollapseRuns(_, _, _)
\* s.replace(/[set]+/g, to): every maximal run of characters of set becomes to
CollapseRuns(s, set, to) ==
    IF s = <<>> THEN <<>>
    ELSE IF Head(s) \in set
         THEN IF Len(s) > 1 /\ s[2] \in set
              THEN CollapseRuns(Tail(s), set, to)
              ELSE <<to>> \o CollapseRuns(Tail(s), set, to)
         ELSE <<Head(s)>> \o CollapseRuns(Tail(s), set, to)

RECURSIVE TrimLeft(_)
TrimLeft(s) == IF s # <<>> /\ Head(s) \in WhiteChars THEN TrimLeft(Tail(s)) ELSE s

RECURSIVE TrimRight(_)
TrimRight(s) ==
    IF s # <<>> /\ s[Len(s)] \in WhiteChars THEN TrimRight(SubSeq(s, 1, Len(s) - 1)) ELSE s

trim(s) == TrimRight(TrimLeft(s))

normalizeWhitespace(s) == trim(CollapseRuns(OrEmpty(s), WhiteChars, " "))

(***************************************************************************)
(* Text matching.                                                          *)
(***************************************************************************)
\* the characters /[^a-z0-9#\s]+/ removes
NotMatchChar(c) == ~(IsLower(c) \/ c \in DigitChars \/ c = "#" \/ c \in WhiteChars)

normForMatch(s) ==
    LET lower == toLowerCase(normalizeWhitespace(s))
        apos == ReplaceChar(lower, {"'", "right-quote"}, "'")
        junk == {apos[i] : i \in {j \in 1..Len(apos) : NotMatchChar(apos[j])}}
        kept == CollapseRuns(apos, junk, " ")
    IN  trim(CollapseRuns(kept, WhiteChars, " "))

RECURSIVE SplitSpace(_, _)
\* s.split(" ").filter(Boolean) as a set; cur is the token being read
SplitSpace(s, cur) ==
    IF s = <<>> THEN (IF cur = <<>> THEN {} ELSE {cur})
    ELSE IF Head(s) = " "
         THEN (IF cur = <<>> THEN {} ELSE {cur}) \cup SplitSpace(Tail(s), <<>>)
         ELSE SplitSpace(Tail(s), Append(cur, Head(s)))

tokenSet(s) == SplitSpace(normForMatch(s), <<>>)

Max(a, b) == IF a >= b THEN a ELSE b

\* the score as a fraction <<numerator, denominator>>
tokenOverlapScore(a, b) ==
    LET A == tokenSet(a)
        B == tokenSet(b)
    IN  IF A = {} \/ B = {} THEN <<0, 1>>
        ELSE <<Cardinality(A \cap B), Max(Cardinality(A), Cardinality(B))>>

(***************************************************************************)
(* Key theory.                                                             *)
(***************************************************************************)
NoteLetters == {"A","B","C","D","E","F","G","a","b","c","d","e","f","g"}

flatsToSharps(up) ==
    CASE up = <<"D","B">> -> <<"C","#">>
      [] up = <<"E","B">> -> <<"D","#">>
      [] up = <<"G","B">> -> <<"F","#">>
      [] up = <<"A","B">> -> <<"G","#">>
      [] up = <<"B","B">> -> <<"A","#">>
      [] OTHER -> Undefined

normalizeKeyName(key) ==
    LET k0 == normalizeWhitespace(key)
        k == ReplaceChar(ReplaceChar(k0, {FlatSign}, "b"), {SharpSign}, "#")
    IN  IF Len(k) = 2 /\ k[1] \in NoteLetters /\ k[2] = "b"
        THEN LET up == toUpperCase(k)
             IN  IF flatsToSharps(up) # Undefined THEN flatsToSharps(up) ELSE <<up[1]>>
        ELSE IF Len(k) = 2 /\ k[1] \in NoteLetters /\ k[2] = "#"
        THEN <<ToUpperChar(k[1]), "#">>
        ELSE IF Len(k) = 1 /\ k[1] \in NoteLetters
        THEN toUpperCase(k)
        ELSE k

\* a major table with the codes of B and F# exchanged
MAJORSwapped(k) ==
    CASE k = <<"C">> -> <<"8","B">>
      [] k = <<"G">> -> <<"9","B">>
      [] k = <<"D">> -> <<"1","0","B">>
      [] k = <<"A">> -> <<"1","1","B">>
      [] k = <<"E">> -> <<"1","2","B">>
      [] k = <<"B">> -> <<"2","B">>
      [] k = <<"F","#">> -> <<"1","B">>
      [] k = <<"C","#">> -> <<"3","B">>
      [] k = <<"G","#">> -> <<"4","B">>
      [] k = <<"D","#">> -> <<"5","B">>
      [] k = <<"A","#">> -> <<"6","B">>
      [] k = <<"F">> -> <<"7","B">>
      [] OTHER -> Undefined

MAJOR(k) ==
    CASE k = <<"C">> -> <<"8","B">>
      [] k = <<"G">> -> <<"9","B">>
      [] k = <<"D">> -> <<"1","0","B">>
      [] k = <<"A">> -> <<"1","1","B">>
      [] k = <<"E">> -> <<"1","2","B">>
      [] k = <<"B">> -> <<"1","B">>
      [] k = <<"F","#">> -> <<"2","B">>
      [] k = <<"C","#">> -> <<"3","B">>
      [] k = <<"G","#">> -> <<"4","B">>
      [] k = <<"D","#">> -> <<"5","B">>
      [] k = <<"A","#">> -> <<"6","B">>
      [] k = <<"F">> -> <<"7","B">>
      [] OTHER -> Undefined

MINOR(k) ==
    CASE k = <<"A">> -> <<"8","A">>
      [] k = <<"E">> -> <<"9","A">>
      [] k = <<"B">> -> <<"1","0","A">>
      [] k = <<"F","#">> -> <<"1","1","A">>
      [] k = <<"C","#">> -> <<"1","2","A">>
      [] k = <<"G","#">> -> <<"1","A">>
      [] k = <<"D","#">> -> <<"2","A">>
      [] k = <<"A","#">> -> <<"3","A">>
      [] k = <<"F">> -> <<"4","A">>
      [] k = <<"C">> -> <<"5","A">>
      [] k = <<"G">> -> <<"6","A">>
      [] k = <<"D">> -> <<"7","A">>
      [] OTHER -> Undefined

OrNull(v) == IF Falsy(v) THEN Null ELSE v

\* a keyToCamelot that takes every mode other than minor for major
keyToCamelotAnyMode(key, mode) ==
    LET k == normalizeKeyName(key)
        m == toLowerCase(OrEmpty(mode))
    IN  IF m = <<"m","i","n","o","r">> THEN OrNull(MINOR(k)) ELSE OrNull(MAJOR(k))

keyToCamelot(key, mode) ==
    LET k == normalizeKeyName(key)
        m == toLowerCase(OrEmpty(mode))
    IN  IF m = <<"m","a","j","o","r">> THEN OrNull(MAJOR(k))
        ELSE IF m = <<"m","i","n","o","r">> THEN OrNull(MINOR(k))
        ELSE Null

\* the accidentals of /[#b(sharp)(flat)]?/, and what .replace makes of them
AccidentalChars == {"#", "b", SharpSign, FlatSign}
AsciiAccidental(acc) == ReplaceChar(ReplaceChar(acc, {SharpSign}, "#"), {FlatSign}, "b")

parseGetsongKeyOf(keyOfRaw) ==
    LET raw == normalizeWhitespace(keyOfRaw)
        n == Len(raw)
        \* /^([A-Ga-g])([#b..]?)(m)?$/
        hasAcc1 == n >= 2 /\ raw[2] \in AccidentalChars
        rest1 == IF hasAcc1 THEN SubSeq(raw, 3, n) ELSE SubSeq(raw, 2, n)
        m1 == n >= 1 /\ raw[1] \in NoteLetters /\ rest1 \in {<<>>, <<"m">>}
        \* /^([A-Ga-g])([#b..]?)\s*(major|minor)$/i
        low == toLowerCase(raw)
        hasAcc2 == n >= 2 /\ low[2] \in AccidentalChars
        rest2 == TrimLeft(IF hasAcc2 THEN SubSeq(low, 3, n) ELSE SubSeq(low, 2, n))
        m2 == n >= 1 /\ raw[1] \in NoteLetters
                 /\ rest2 \in {<<"m","a","j","o","r">>, <<"m","i","n","o","r">>}
    IN  IF raw = <<>> THEN NullRec
        ELSE IF m1
        THEN [key |-> normalizeKeyName(
                         <<ToUpperChar(raw[1])>>
                         \o AsciiAccidental(IF hasAcc1 THEN <<raw[2]>> ELSE <<>>)),
              scale |-> IF rest1 = <<"m">> THEN <<"m","i","n","o","r">>
                        ELSE <<"m","a","j","o","r">>]
        ELSE IF m2
        THEN [key |-> normalizeKeyName(
                         <<ToUpperChar(raw[1])>>
                         \o AsciiAccidental(IF hasAcc2 THEN <<raw[2]>> ELSE <<>>)),
              scale |-> rest2]
        ELSE NullRec

(***************************************************************************)
(* Program constants, in units of 100 ms.                                  *)
(***************************************************************************)
\* 1000 * 60 * 60 * 24 * 30 ms
CACHE_TTL_MS == 10 * 60 * 60 * 24 * 30
\* 1100 ms
MB_MIN_INTERVAL_MS == 11
MUSICBRAINZ_MIN_SCORE == 60

(***************************************************************************)
(* Sorting: Array.prototype.sort is stable; an entry is <<rank, value>>    *)
(* and rank is a fraction <<numerator, denominator>>.                      *)
(***************************************************************************)
FracLess(x, y) == x[1] * y[2] < y[1] * x[2]

RECURSIVE InsertDesc(_, _)
\* e goes before the first entry that ranks strictly lower
InsertDesc(sorted, e) ==
    IF sorted = <<>> THEN <<e>>
    ELSE IF FracLess(Head(sorted)[1], e[1]) THEN <<e>> \o sorted
    ELSE <<Head(sorted)>> \o InsertDesc(Tail(sorted), e)

RECURSIVE SortDesc(_)
SortDesc(seq) ==
    IF seq = <<>> THEN <<>>
    ELSE InsertDesc(SortDesc(SubSeq(seq, 1, Len(seq) - 1)), seq[Len(seq)])

Slice(seq, n) == SubSeq(seq, 1, IF Len(seq) < n THEN Len(seq) ELSE n)

(***************************************************************************)
(* Provider A: the ranking and parsing of lookupViaGetSongBpm.             *)
(***************************************************************************)
\* (tScore * 0.7) + (aScore * 0.3), as a fraction
gsbScore(s, title, artist) ==
    LET t == tokenOverlapScore(OrEmpty(s.title), title)
        a == tokenOverlapScore(OrEmpty(s.artistName), artist)
    IN  <<7 * t[1] * a[2] + 3 * a[1] * t[2], 10 * t[2] * a[2]>>

gsbRanked(items, title, artist) ==
    SortDesc([i \in 1..Len(items) |-> <<gsbScore(items[i], title, artist), items[i]>>])

RECURSIVE gsbFirstParsed(_)
\* the loop over ranked.slice(0, 5): the first entry whose key_of parses
gsbFirstParsed(top) ==
    IF top = <<>> THEN NullRec
    ELSE LET s == Head(top)[2]
             parsed == parseGetsongKeyOf(s.key_of)
         IN  IF parsed = NullRec THEN gsbFirstParsed(Tail(top))
             ELSE [camelot |-> OrNull(keyToCamelot(parsed.key, parsed.scale)),
                   key |-> parsed.key,
                   mode |-> parsed.scale,
                   provider |-> <<"g","e","t","s","o","n","g","b","p","m">>,
                   providerId |-> OrNull(s.id)]

\* a Provider A client that examines every ranked result
gsbResultAll(res, title, artist) ==
    IF ~res.ok THEN NullRec
    ELSE IF res.search = <<>> THEN NullRec
    ELSE gsbFirstParsed(gsbRanked(res.search, title, artist))

\* what lookupViaGetSongBpm returns for an answer of the search endpoint
gsbResult(res, title, artist) ==
    IF ~res.ok THEN NullRec
    ELSE IF res.search = <<>> THEN NullRec
    ELSE gsbFirstParsed(Slice(gsbRanked(res.search, title, artist), 5))

\* lookupViaGetSongBpm as a whole, for the API key stored and the answer res
lookupViaGetSongBpm(stored, res, title, artist) ==
    IF trim(OrEmpty(stored)) = <<>> THEN NullRec ELSE gsbResult(res, title, artist)

(***************************************************************************)
(* Provider B: the ranking of searchMusicBrainzRecordings and the tonal    *)
(* data of fetchAcousticBrainzKeyAnySubmission.                            *)
(***************************************************************************)
\* a ?? b
Coalesce(a, b) == IF a = Null \/ a = Undefined THEN b ELSE a

\* a ranking that forgets the score floor
mbRankedNoFloor(recs) ==
    LET mapped == [i \in 1..Len(recs) |->
                      [mbid |-> recs[i].id,
                       score |-> IF recs[i].score = NullNum THEN 0 ELSE recs[i].score]]
        HasId(x) == ~Falsy(x.mbid)
        withId == SelectSeq(mapped, HasId)
        sorted == SortDesc([i \in 1..Len(withId) |-> <<<<withId[i].score, 1>>, withId[i]>>])
        plain == [i \in 1..Len(sorted) |-> sorted[i][2]]
    IN  Slice(plain, 6)

mbRanked(recs) ==
    LET mapped == [i \in 1..Len(recs) |->
                      [mbid |-> recs[i].id,
                       score |-> IF recs[i].score = NullNum THEN 0 ELSE recs[i].score]]
        HasId(x) == ~Falsy(x.mbid)
        withId == SelectSeq(mapped, HasId)
        sorted == SortDesc([i \in 1..Len(withId) |-> <<<<withId[i].score, 1>>, withId[i]>>])
        plain == [i \in 1..Len(sorted) |-> sorted[i][2]]
        AboveFloor(x) == x.score >= MUSICBRAINZ_MIN_SCORE
    IN  Slice(SelectSeq(plain, AboveFloor), 6)

\* the {key, scale} of one submission, or NullRec when either is missing
abTonal(tonal) ==
    LET key == IF tonal = NullRec THEN Null
               ELSE Coalesce(Coalesce(tonal.key_key, tonal.chords_key), Null)
        scale == IF tonal = NullRec THEN Null
                 ELSE Coalesce(Coalesce(tonal.key_scale, tonal.chords_scale), Null)
    IN  IF ~Falsy(key) /\ ~Falsy(scale) THEN [key |-> key, scale |-> scale] ELSE NullRec

(***************************************************************************)
(* The records lookupCamelot caches and returns.                           *)
(***************************************************************************)
gsbOut(gsb, now) ==
    [camelot |-> gsb.camelot, key |-> gsb.key, mode |-> gsb.mode,
     provider |-> gsb.provider, providerId |-> gsb.providerId,
     mbid |-> Null, score |-> NullNum, cachedAt |-> now]

abOut(ab, mb, now) ==
    [camelot |-> OrNull(keyToCamelot(ab.key, ab.scale)),
     key |-> normalizeKeyName(ab.key),
     mode |-> OrNull(toLowerCase(ab.scale)),
     mbid |-> mb.mbid, score |-> mb.score, cachedAt |-> now]

\* a miss that carries the last candidate instead of the first
missOutLast(candidates, now) ==
    [camelot |-> Null, key |-> Null, mode |-> Null,
     mbid |-> IF candidates = <<>> THEN Null ELSE candidates[Len(candidates)].mbid,
     score |-> IF candidates = <<>> THEN NullNum ELSE candidates[Len(candidates)].score,
     cachedAt |-> now]

missOut(candidates, now) ==
    [camelot |-> Null, key |-> Null, mode |-> Null,
     mbid |-> IF candidates = <<>> THEN Null ELSE candidates[1].mbid,
     score |-> IF candidates = <<>> THEN NullNum ELSE candidates[1].score,
     cachedAt |-> now]

\* a cache check that never finds a usable record
isFreshNever(cached, now) == FALSE

\* a cache check with the comparison turned around
isFreshInverted(cached, now) == cached # NullRec /\ (now - cached.cachedAt) > CACHE_TTL_MS

\* a cache check that still accepts a record exactly CACHE_TTL_MS old
isFreshInclusive(cached, now) == cached # NullRec /\ (now - cached.cachedAt) <= CACHE_TTL_MS

\* cached && (now - cached.cachedAt) < CACHE_TTL_MS
isFresh(cached, now) == cached # NullRec /\ (now - cached.cachedAt) < CACHE_TTL_MS

\* a rate limiter one unit short of the interval
rateLimitWaitShort(now, last) == Max(0, MB_MIN_INTERVAL_MS - 1 - (now - last))

\* wait of rateLimitedMusicBrainzFetch
rateLimitWait(now, last) == Max(0, MB_MIN_INTERVAL_MS - (now - last))

(***************************************************************************)
(* Bounds and inputs.                                                      *)
(***************************************************************************)
\* messages the listener accepts in one run
MaxMsgs == 2
\* how far the clock runs past StartTime
MaxElapsed == 22

\* Date.now() when the service worker starts
StartTime == CACHE_TTL_MS + MB_MIN_INTERVAL_MS
\* the steps of the clock: the interval of the rate limiter, and one unit less, so
\* that two instants can be one unit short of an interval apart
TickDeltas == {MB_MIN_INTERVAL_MS - 1, MB_MIN_INTERVAL_MS}

K1 == <<"t","a",":","a","|","x">>
K2 == <<"t","a",":","b","|","x">>
Keys == {K1, K2}

\* the messages of content.js, and ones with a part missing or blank
Messages ==
    { [cacheKey |-> K1, title |-> <<"a">>, artist |-> <<"x">>],
      [cacheKey |-> K2, title |-> <<" ","b"," ">>, artist |-> <<"x">>],
      [cacheKey |-> K1, title |-> <<" ","\t">>, artist |-> <<"x">>],
      [cacheKey |-> K2, title |-> <<"b">>, artist |-> Undefined],
      [cacheKey |-> Undefined, title |-> <<"a">>, artist |-> <<"x">>] }

\* what the options page is asked to save
TypedKeys == {<<>>, <<" ","k","1"," ">>}

\* fetch rejects (no answer from the network)
NetworkError == [networkError |-> TRUE]

GsbItem(id, title, artistName, keyOf) ==
    [id |-> id, title |-> title, artistName |-> artistName, key_of |-> keyOf]

\* answers of the GetSongBPM search endpoint
GsbResponses ==
    { NetworkError,
      [ok |-> FALSE, status |-> 401, search |-> <<>>],
      [ok |-> TRUE, status |-> 200,
       search |-> <<GsbItem(<<"7">>, <<"a">>, <<"x">>, <<"H">>)>>],
      [ok |-> TRUE, status |-> 200,
       search |-> <<GsbItem(<<"8">>, <<"z">>, <<"x">>, <<"E","m">>),
                    GsbItem(<<"9">>, <<"a"," ","b">>, <<"x">>, <<"B","b">>)>>] }

\* answers of the MusicBrainz recording search
MbResponses ==
    { NetworkError,
      [ok |-> FALSE, status |-> 503, recordings |-> <<>>],
      [ok |-> TRUE, status |-> 200,
       recordings |-> <<[id |-> <<"m","1">>, score |-> 59]>>],
      [ok |-> TRUE, status |-> 200,
       recordings |-> <<[id |-> <<"m","1">>, score |-> 70],
                        [id |-> Undefined, score |-> 100],
                        [id |-> <<"m","2">>, score |-> 90],
                        [id |-> <<"m","3">>, score |-> NullNum]>>] }

\* answers of the AcousticBrainz low-level endpoint
AbResponses ==
    { NetworkError,
      [ok |-> FALSE, status |-> 404, tonal |-> NullRec],
      [ok |-> FALSE, status |-> 500, tonal |-> NullRec],
      [ok |-> TRUE, status |-> 200, tonal |-> NullRec],
      [ok |-> TRUE, status |-> 200,
       tonal |-> [key_key |-> Undefined, key_scale |-> <<"M","a","j","o","r">>,
                  chords_key |-> <<"D","b">>, chords_scale |-> <<"m","i","n","o","r">>]] }

\* Longer answers, for the runs that follow one request in depth.
\* answers of the GetSongBPM search endpoint: no results; five unusable key
\* strings ranked before a usable one; a usable one listed last that ranks
\* first; a key string that parses to a note outside the tables
GsbResponsesDeep ==
    { NetworkError,
      [ok |-> FALSE, status |-> 401, search |-> <<>>],
      [ok |-> TRUE, status |-> 200, search |-> <<>>],
      [ok |-> TRUE, status |-> 200,
       search |-> <<GsbItem(<<"1">>, <<"a">>, <<"x">>, <<"H">>),
                    GsbItem(<<"2">>, <<"b">>, <<"x">>, <<>>),
                    GsbItem(<<"3">>, <<"a"," ","b">>, <<"x">>, <<"E","m","m">>),
                    GsbItem(<<"4">>, <<"a"," ","b">>, <<"x">>, Undefined),
                    GsbItem(<<"5">>, <<"b"," ","a">>, <<"x">>, <<"m","i","n","o","r">>),
                    GsbItem(<<"6">>, <<"z">>, <<"y">>, <<"E","m">>)>>],
      [ok |-> TRUE, status |-> 200,
       search |-> <<GsbItem(<<"1">>, <<"z">>, <<"x">>, <<"C">>),
                    GsbItem(<<"2">>, Undefined, <<"x">>, <<"G","b","m">>),
                    GsbItem(Undefined, <<"a"," ","b">>, <<"x"," ","y">>, <<"a"," ","M","a","j","o","r">>),
                    GsbItem(<<"4">>, <<"A"," ","b","!">>, <<"X">>, <<"F","#","m">>)>>],
      [ok |-> TRUE, status |-> 200,
       search |-> <<GsbItem(<<"7">>, <<"a">>, <<"x">>, <<"H">>),
                    GsbItem(<<"6">>, <<"a">>, <<"x">>, <<"E","#">>)>>] }

\* answers of the MusicBrainz recording search: more than six usable recordings
MbResponsesDeep ==
    { NetworkError,
      [ok |-> FALSE, status |-> 503, recordings |-> <<>>],
      [ok |-> TRUE, status |-> 200,
       recordings |-> <<[id |-> <<"m","1">>, score |-> 59]>>],
      [ok |-> TRUE, status |-> 200,
       recordings |-> <<[id |-> <<"m","1">>, score |-> 70],
                        [id |-> Undefined, score |-> 100],
                        [id |-> <<"m","2">>, score |-> 90],
                        [id |-> <<"m","3">>, score |-> NullNum],
                        [id |-> <<"m","4">>, score |-> 60],
                        [id |-> <<"m","5">>, score |-> 65],
                        [id |-> <<"m","6">>, score |-> 80],
                        [id |-> <<"m","7">>, score |-> 61],
                        [id |-> <<"m","8">>, score |-> 75],
                        [id |-> <<"m","9">>, score |-> 59]>>] }

\* answers of the AcousticBrainz low-level endpoint: also a note and a scale
\* outside the tables, and a submission with a key and no scale
AbResponsesDeep ==
    AbResponses \cup
    { [ok |-> TRUE, status |-> 200,
       tonal |-> [key_key |-> <<"H">>, key_scale |-> <<"m","i","n","o","r">>,
                  chords_key |-> Undefined, chords_scale |-> Undefined]],
      [ok |-> TRUE, status |-> 200,
       tonal |-> [key_key |-> <<"C">>, key_scale |-> <<"d","o","r","i","a","n">>,
                  chords_key |-> <<"D">>, chords_scale |-> <<"m","a","j","o","r">>]],
      [ok |-> TRUE, status |-> 200,
       tonal |-> [key_key |-> <<"A">>, key_scale |-> Undefined,
                  chords_key |-> Undefined, chords_scale |-> Null]] }

\* records an earlier run of the service worker left in the cache: a hit that
\* is one unit short of CACHE_TTL_MS old when the worker starts, and a miss
\* that is exactly CACHE_TTL_MS old one interval of the rate limiter later
PersistedRecords ==
    { gsbOut([camelot |-> <<"9","A">>, key |-> <<"E">>, mode |-> <<"m","i","n","o","r">>,
              provider |-> <<"g","e","t","s","o","n","g","b","p","m">>,
              providerId |-> <<"5">>], StartTime - CACHE_TTL_MS + 1),
      missOut(<<>>, StartTime - CACHE_TTL_MS + MB_MIN_INTERVAL_MS) }

(***************************************************************************)
(* State.                                                                  *)
(***************************************************************************)
VARIABLES
    clock,            \* Date.now()
    lastMbRequestAt,  \* let lastMbRequestAt
    storage,          \* chrome.storage.local, the cache records by cacheKey
    apiKey,           \* chrome.storage.local, the value under getsongApiKey
    msgs,             \* the accepted messages, in arrival order; a message is
                      \* Taken once its continuation has read it
    pc,               \* per message: where its continuation of the queue stands
    loc,              \* per message: the local variables of its continuation
    settled,          \* per message: the promise `queue` was set to on its arrival
    responses,        \* the messages answered by sendResponse, in order
    inflight,         \* the provider requests sent and not yet answered
    effects,          \* per message: what its running continuation has done so far
    last,             \* the latest sendResponse, until the next continuation starts
    hist,             \* per message: how its continuation started and ended
    answer,           \* the latest answer of a provider, until the next continuation starts
    mbLast,           \* start time of the latest MusicBrainz request (-1: none yet)
    pbLast,           \* start time of the latest Provider B request (-1: none yet)
    probe             \* a call of the key theory on its own: arguments and result

vars == <<clock, lastMbRequestAt, storage, apiKey, msgs, pc, loc, settled,
          responses, inflight, effects, last, hist, answer, mbLast, pbLast, probe>>

MsgIds == 1..MaxMsgs

InitLoc ==
    [now |-> 0, title |-> <<>>, artist |-> <<>>, cacheKey |-> <<>>, q |-> 0,
     wakeAt |-> 0, candidates |-> <<>>, ci |-> 0, n |-> 0, out |-> NullRec]

\* lookupViaGetSongBpm has not returned yet
NotYet == [pending |-> TRUE]

InitEffects ==
    [reads |-> 0, writes |-> 0, asked |-> {}, seen |-> NullRec, gsb |-> NotYet]

NoAnswer == [service |-> "none", kind |-> "none", hit |-> FALSE]

\* how a provider answered: fetch rejected, a non-success status, or success
AnswerKind(res) ==
    IF res = NetworkError THEN "network" ELSE IF res.ok THEN "ok" ELSE "status"

\* the latest answer: who answered, how, and whether the client found data in it
Answer(service, res, hit) ==
    [service |-> service, kind |-> AnswerKind(res), hit |-> AnswerKind(res) = "ok" /\ hit]

\* what the closure of a continuation holds once the message has been read
Taken == [taken |-> TRUE]

NoRequest == [cacheKey |-> Undefined, title |-> <<>>, artist |-> <<>>]

NoLast ==
    [msg |-> 0, request |-> NoRequest, now |-> 0, payload |-> NullRec,
     effects |-> InitEffects]

\* no call of the key theory on its own
NoProbe == [key |-> Undefined, mode |-> Undefined, done |-> FALSE, result |-> Undefined]

Init ==
    /\ probe = NoProbe
    /\ clock = StartTime
    /\ lastMbRequestAt = 0
    /\ storage \in [Keys -> PersistedRecords \cup {NullRec}]
    /\ storage[K2] = NullRec
    /\ apiKey = <<>>
    /\ msgs = <<>>
    /\ pc = [i \in MsgIds |-> "none"]
    /\ loc = [i \in MsgIds |-> InitLoc]
    /\ settled = [i \in MsgIds |-> "none"]
    /\ responses = <<>>
    /\ inflight = {}
    /\ effects = [i \in MsgIds |-> InitEffects]
    /\ last = NoLast
    /\ hist = [i \in MsgIds |-> [backlog |-> 0, outcome |-> "none", cacheKey |-> Undefined]]
    /\ answer = NoAnswer
    /\ mbLast = NullNum
    /\ pbLast = NullNum

(***************************************************************************)
(* Building blocks of the continuation.  Each leaves clock, storage,       *)
(* apiKey, msgs and answer to the action that uses it.                     *)
(***************************************************************************)
RECURSIVE EscapeChars(_)
\* .replace(/\\/g, "\\\\").replace(/"/g, '\\"')
EscapeChars(s) ==
    IF s = <<>> THEN <<>>
    ELSE (IF Head(s) \in {"\\", "\""} THEN <<"\\", Head(s)>> ELSE <<Head(s)>>)
         \o EscapeChars(Tail(s))

luceneEscapePhrase(s) == EscapeChars(normalizeWhitespace(s))

\* queries[q - 1] of searchMusicBrainzRecordings
mbQuery(q, title, artist) ==
    LET t == luceneEscapePhrase(title)
        a == luceneEscapePhrase(artist)
    IN  CASE q = 1 -> <<"recording:", "\"">> \o t \o <<"\"", " AND ", "artist:", "\"">> \o a \o <<"\"">>
          [] q = 2 -> <<"recording:", "\"">> \o t \o <<"\"", " AND ", "artist:">> \o a
          [] q = 3 -> <<"recording:", "\"">> \o t \o <<"\"">>
          [] OTHER -> <<>>

\* a request to a provider: the query q of the search, or the submission n of
\* candidate ci, that the continuation of message i is at
Request(i, service, l) ==
    [msg |-> i, service |-> service, q |-> l.q, ci |-> l.ci, n |-> l.n,
     query |-> IF service = "musicbrainz" THEN mbQuery(l.q, l.title, l.artist) ELSE <<>>,
     mbid |-> IF service = "acousticbrainz" THEN l.candidates[l.ci].mbid ELSE <<>>]

\* the continuation ends: the async function returns and its promise settles
End(i, how, state, e, fl) ==
    /\ settled' = [settled EXCEPT ![i] = state]
    /\ pc' = [pc EXCEPT ![i] = "done"]
    /\ loc' = [loc EXCEPT ![i] = InitLoc]
    /\ effects' = [effects EXCEPT ![i] = InitEffects]
    /\ hist' = [hist EXCEPT ![i].outcome = how]
    /\ inflight' = fl
    /\ UNCHANGED <<lastMbRequestAt, mbLast, pbLast>>

\* sendResponse(payload) as the last statement of the continuation
Finish(i, payload, how, e, fl) ==
    /\ responses' = Append(responses, i)
    /\ last' = [msg |-> i, payload |-> payload, effects |-> e, now |-> loc[i].now,
                 request |-> [cacheKey |-> loc[i].cacheKey, title |-> loc[i].title,
                              artist |-> loc[i].artist]]
    /\ End(i, how, "fulfilled", e, fl)

\* a continuation without the try/catch: the exception rejects its promise
OnThrowUncaught(i, err, e, fl) ==
    /\ End(i, "failed", "rejected", e, fl)
    /\ UNCHANGED <<responses, last>>

\* an exception inside the try block: catch (e) { sendResponse({ok: false, ...}) }
OnThrow(i, err, e, fl) == Finish(i, [ok |-> FALSE, error |-> err], "failed", e, fl)

\* an await that sends nothing: the continuation moves to position p
Goto(i, p, l, e, fl) ==
    /\ pc' = [pc EXCEPT ![i] = p]
    /\ loc' = [loc EXCEPT ![i] = l]
    /\ effects' = [effects EXCEPT ![i] = e]
    /\ inflight' = fl
    /\ UNCHANGED <<lastMbRequestAt, mbLast, pbLast, settled, responses, last, hist>>

\* lastMbRequestAt = Date.now(); fetch(url)
MbSend(i, l, e, fl) ==
    /\ lastMbRequestAt' = clock
    /\ mbLast' = clock
    /\ pbLast' = clock
    /\ pc' = [pc EXCEPT ![i] = "mbFetch"]
    /\ loc' = [loc EXCEPT ![i] = l]
    /\ effects' = [effects EXCEPT ![i] = [e EXCEPT !.asked = @ \cup {"musicbrainz"}]]
    /\ inflight' = fl \cup {Request(i, "musicbrainz", l)}
    /\ UNCHANGED <<settled, responses, last, hist>>

\* rateLimitedMusicBrainzFetch up to its first await: the sleep, or the fetch
MbBegin(i, l, e, fl) ==
    LET wait == rateLimitWait(clock, lastMbRequestAt)
    IN  IF wait > 0
        THEN Goto(i, "mbSleep", [l EXCEPT !.wakeAt = clock + wait], e, fl)
        ELSE MbSend(i, l, e, fl)

\* an AcousticBrainz fetch that also stamps the rate limiter
AbSendStamped(i, l, e, fl) ==
    /\ lastMbRequestAt' = clock
    /\ pbLast' = clock
    /\ pc' = [pc EXCEPT ![i] = "abFetch"]
    /\ loc' = [loc EXCEPT ![i] = l]
    /\ effects' = [effects EXCEPT ![i] = [e EXCEPT !.asked = @ \cup {"acousticbrainz"}]]
    /\ inflight' = fl \cup {Request(i, "acousticbrainz", l)}
    /\ UNCHANGED <<mbLast, settled, responses, last, hist>>

\* fetch(url) of fetchAcousticBrainzKeyAnySubmission
AbSend(i, l, e, fl) ==
    /\ pbLast' = clock
    /\ pc' = [pc EXCEPT ![i] = "abFetch"]
    /\ loc' = [loc EXCEPT ![i] = l]
    /\ effects' = [effects EXCEPT ![i] = [e EXCEPT !.asked = @ \cup {"acousticbrainz"}]]
    /\ inflight' = fl \cup {Request(i, "acousticbrainz", l)}
    /\ UNCHANGED <<lastMbRequestAt, mbLast, settled, responses, last, hist>>

\* a lookupCamelot that returns a miss without caching it
StoreBeginSkipMiss(i, l, out, e, fl) ==
    Goto(i, IF out.camelot = Null THEN "respond" ELSE "cacheSet", [l EXCEPT !.out = out], e, fl)

\* storageSet({[cacheKey]: out}) is called and awaited
StoreBegin(i, l, out, e, fl) == Goto(i, "cacheSet", [l EXCEPT !.out = out], e, fl)

\* `continue` of the loop over candidates, and the miss after it
NextCandidate(i, l, e, fl) ==
    IF l.ci < Len(l.candidates)
    THEN AbSend(i, [l EXCEPT !.ci = @ + 1, !.n = 0], e, fl)
    ELSE StoreBegin(i, l, missOut(l.candidates, l.now), e, fl)

\* a tonal lookup that goes on to the next submission after a non-success status
AbStatusTryNext(i, l, e, fl) ==
    IF l.n + 1 < 3
    THEN AbSend(i, [l EXCEPT !.n = @ + 1], e, fl)
    ELSE NextCandidate(i, l, e, fl)

\* if (res.status === 404) return null; if (!res.ok) return null;
AbStatus(i, l, e, fl) == NextCandidate(i, l, e, fl)

\* a lookupCamelot that goes on to the search whatever Provider A returned
AfterGsbSearchAnyway(i, gsb, e, fl) ==
    MbBegin(i, [loc[i] EXCEPT !.q = 1], [e EXCEPT !.gsb = gsb], fl)

\* lookupViaGetSongBpm has returned gsb: if (gsb) cache and return it, else search
AfterGsb(i, gsb, e, fl) ==
    IF gsb # NullRec
    THEN StoreBegin(i, loc[i], gsbOut(gsb, loc[i].now), [e EXCEPT !.gsb = gsb], fl)
    ELSE MbBegin(i, [loc[i] EXCEPT !.q = 1], [e EXCEPT !.gsb = gsb], fl)

(***************************************************************************)
(* Actions.                                                                *)
(***************************************************************************)
\* time passes
Tick(d) ==
    /\ clock + d <= StartTime + MaxElapsed
    /\ clock' = clock + d
    /\ UNCHANGED <<lastMbRequestAt, storage, apiKey, msgs, pc, loc, settled, responses,
                   inflight, effects, last, hist, answer, mbLast, pbLast>>
    /\ UNCHANGED probe

\* options.js: the click on "save"
SaveOptions(typed) ==
    /\ apiKey' = trim(OrEmpty(typed))
    /\ apiKey' # apiKey
    /\ UNCHANGED <<clock, lastMbRequestAt, storage, msgs, pc, loc, settled, responses,
                   inflight, effects, last, hist, answer, mbLast, pbLast>>
    /\ UNCHANGED probe

\* the listener: queue = queue.then(...); the messages of Messages all carry an
\* accepted type
Receive(m) ==
    /\ Len(msgs) < MaxMsgs
    /\ msgs' = Append(msgs, m)
    /\ pc' = [pc EXCEPT ![Len(msgs) + 1] = "queued"]
    /\ settled' = [settled EXCEPT ![Len(msgs) + 1] = "pending"]
    /\ UNCHANGED <<clock, lastMbRequestAt, storage, apiKey, loc, responses, inflight,
                   effects, last, hist, answer, mbLast, pbLast>>
    /\ UNCHANGED probe

\* a listener that calls the continuation without chaining it on `queue`
CanStartAtOnce(i) == pc[i] = "queued"

\* promise.then(f): f runs once the promise `queue` held on arrival is fulfilled
CanStart(i) == pc[i] = "queued" /\ (IF i = 1 THEN TRUE ELSE settled[i - 1] = "fulfilled")

\* a validation that forgets the title
IncompleteNoTitle(title, artist, cacheKey) == Falsy(artist) \/ Falsy(cacheKey)

\* !title || !artist || !cacheKey
Incomplete(title, artist, cacheKey) == Falsy(title) \/ Falsy(artist) \/ Falsy(cacheKey)

\* the continuation starts: validation, then lookupCamelot up to storageGet
Start(i) ==
    /\ CanStart(i)
    /\ LET title == normalizeWhitespace(msgs[i].title)
           artist == normalizeWhitespace(msgs[i].artist)
           cacheKey == msgs[i].cacheKey
       IN  IF Incomplete(title, artist, cacheKey)
           THEN /\ responses' = Append(responses, i)
                /\ last' = [msg |-> i, payload |-> [ok |-> TRUE, data |-> NullRec],
                            effects |-> effects[i], now |-> 0,
                            request |-> [cacheKey |-> cacheKey, title |-> title,
                                         artist |-> artist]]
                /\ settled' = [settled EXCEPT ![i] = "fulfilled"]
                /\ pc' = [pc EXCEPT ![i] = "done"]
                /\ hist' = [hist EXCEPT ![i].backlog = Len(msgs), ![i].outcome = "null"]
                /\ answer' = NoAnswer
                /\ UNCHANGED <<loc, effects, inflight, lastMbRequestAt, mbLast, pbLast>>
           ELSE /\ pc' = [pc EXCEPT ![i] = "cacheGet"]
                /\ loc' = [loc EXCEPT ![i] =
                              [InitLoc EXCEPT !.now = clock, !.title = title,
                                              !.artist = artist, !.cacheKey = cacheKey]]
                /\ last' = NoLast
                /\ answer' = NoAnswer
                /\ hist' = [hist EXCEPT ![i].backlog = Len(msgs), ![i].cacheKey = cacheKey]
                /\ UNCHANGED <<effects, inflight, lastMbRequestAt, mbLast, pbLast,
                               settled, responses>>
    /\ msgs' = [msgs EXCEPT ![i] = Taken]
    /\ UNCHANGED <<clock, storage, apiKey>>
    /\ UNCHANGED probe

\* storageGet(cacheKey) answers: the cache check, then getGetsongApiKey
CacheGet(i) ==
    /\ pc[i] = "cacheGet"
    /\ LET cached == storage[loc[i].cacheKey]
           e == [effects[i] EXCEPT !.reads = @ + 1, !.seen = cached]
       IN  IF isFresh(cached, loc[i].now)
           THEN Finish(i, [ok |-> TRUE, data |-> cached], "fromCache", e, inflight)
           ELSE Goto(i, "keyGet", loc[i], e, inflight)
    /\ UNCHANGED <<clock, storage, apiKey, msgs, answer>>
    /\ UNCHANGED probe

\* storageGet(GETSONG_KEY_STORAGE) answers: Provider A is asked, or skipped
KeyGet(i) ==
    /\ pc[i] = "keyGet"
    /\ IF trim(OrEmpty(apiKey)) = <<>>
       THEN AfterGsb(i, NullRec, effects[i], inflight)
       ELSE /\ pc' = [pc EXCEPT ![i] = "gsbFetch"]
            /\ effects' = [effects EXCEPT ![i].asked = @ \cup {"getsongbpm"}]
            /\ inflight' = inflight \cup {Request(i, "getsongbpm", loc[i])}
            /\ UNCHANGED <<loc, lastMbRequestAt, mbLast, pbLast, settled, responses,
                           last, hist>>
    /\ UNCHANGED <<clock, storage, apiKey, msgs, answer>>
    /\ UNCHANGED probe

\* the GetSongBPM search answers
GsbResponse(i, res) ==
    /\ pc[i] = "gsbFetch"
    /\ LET fl == inflight \ {Request(i, "getsongbpm", loc[i])}
       IN  IF res = NetworkError
           THEN OnThrow(i, [message |-> "Failed to fetch"], effects[i], fl)
           ELSE AfterGsb(i, gsbResult(res, loc[i].title, loc[i].artist), effects[i], fl)
    /\ answer' = Answer("getsongbpm", res,
                        gsbResult(res, loc[i].title, loc[i].artist) # NullRec)
    /\ UNCHANGED <<clock, storage, apiKey, msgs>>
    /\ UNCHANGED probe

\* sleep(wait) is over
MbWake(i) ==
    /\ pc[i] = "mbSleep"
    /\ clock >= loc[i].wakeAt
    /\ MbSend(i, loc[i], effects[i], inflight)
    /\ UNCHANGED <<clock, storage, apiKey, msgs, answer>>
    /\ UNCHANGED probe

\* a search that answers a non-success status with no candidates
MbStatusAsNoData(i, res, e, fl) ==
    StoreBegin(i, loc[i], missOut(<<>>, loc[i].now), e, fl)

\* if (!res.ok) throw new Error(`MusicBrainz HTTP ${res.status}`)
MbStatusError(i, res, e, fl) ==
    OnThrow(i, [message |-> "MusicBrainz HTTP", status |-> res.status], e, fl)

\* a MusicBrainz search answers
MbResponse(i, res) ==
    /\ pc[i] = "mbFetch"
    /\ LET fl == inflight \ {Request(i, "musicbrainz", loc[i])}
       IN  IF res = NetworkError
           THEN OnThrow(i, [message |-> "Failed to fetch"], effects[i], fl)
           ELSE IF ~res.ok
           THEN MbStatusError(i, res, effects[i], fl)
           ELSE LET ranked == mbRanked(res.recordings)
                IN  IF ranked # <<>>
                    THEN AbSend(i, [loc[i] EXCEPT !.candidates = ranked, !.ci = 1, !.n = 0],
                                effects[i], fl)
                    ELSE IF loc[i].q < 3
                    THEN MbBegin(i, [loc[i] EXCEPT !.q = @ + 1], effects[i], fl)
                    ELSE StoreBegin(i, loc[i], missOut(<<>>, loc[i].now), effects[i], fl)
    /\ answer' = Answer("musicbrainz", res, mbRanked(res.recordings) # <<>>)
    /\ UNCHANGED <<clock, storage, apiKey, msgs>>
    /\ UNCHANGED probe

\* an AcousticBrainz submission answers
AbResponse(i, res) ==
    /\ pc[i] = "abFetch"
    /\ LET fl == inflight \ {Request(i, "acousticbrainz", loc[i])}
           l == loc[i]
       IN  IF res = NetworkError
           THEN OnThrow(i, [message |-> "Failed to fetch"], effects[i], fl)
           ELSE IF ~res.ok
           THEN AbStatus(i, l, effects[i], fl)
           ELSE LET ab == abTonal(res.tonal)
                IN  IF ab # NullRec
                    THEN StoreBegin(i, l, abOut(ab, l.candidates[l.ci], l.now), effects[i], fl)
                    ELSE IF l.n + 1 < 3
                    THEN AbSend(i, [l EXCEPT !.n = @ + 1], effects[i], fl)
                    ELSE NextCandidate(i, l, effects[i], fl)
    /\ answer' = Answer("acousticbrainz", res, abTonal(res.tonal) # NullRec)
    /\ UNCHANGED <<clock, storage, apiKey, msgs>>
    /\ UNCHANGED probe

\* a storageSet that writes the record and then fails
StorageSetThenThrow(i) ==
    /\ pc[i] = "cacheSet"
    /\ storage' = [storage EXCEPT ![loc[i].cacheKey] = loc[i].out]
    /\ OnThrow(i, [message |-> "storage"], [effects[i] EXCEPT !.writes = @ + 1], inflight)
    /\ UNCHANGED <<clock, apiKey, msgs, answer>>
    /\ UNCHANGED probe

\* storageSet answers: the record is in the cache
StorageSetDone(i) ==
    /\ pc[i] = "cacheSet"
    /\ storage' = [storage EXCEPT ![loc[i].cacheKey] = loc[i].out]
    /\ Goto(i, "respond", loc[i], [effects[i] EXCEPT !.writes = @ + 1], inflight)
    /\ UNCHANGED <<clock, apiKey, msgs, answer>>
    /\ UNCHANGED probe

\* lookupCamelot returns out; sendResponse({ok: true, data})
Return(i) ==
    /\ pc[i] = "respond"
    /\ Finish(i, [ok |-> TRUE, data |-> loc[i].out], "cached", effects[i], inflight)
    /\ UNCHANGED <<clock, storage, apiKey, msgs, answer>>
    /\ UNCHANGED probe

Next ==
    \/ \E d \in TickDeltas : Tick(d)
    \/ \E typed \in TypedKeys : SaveOptions(typed)
    \/ \E m \in Messages : Receive(m)
    \/ \E i \in MsgIds : Start(i)
    \/ \E i \in MsgIds : CacheGet(i)
    \/ \E i \in MsgIds : KeyGet(i)
    \/ \E i \in MsgIds, res \in GsbResponses : GsbResponse(i, res)
    \/ \E i \in MsgIds : MbWake(i)
    \/ \E i \in MsgIds, res \in MbResponses : MbResponse(i, res)
    \/ \E i \in MsgIds, res \in AbResponses : AbResponse(i, res)
    \/ \E i \in MsgIds : StorageSetDone(i)
    \/ \E i \in MsgIds : Return(i)

Spec == Init /\ [][Next]_vars

\* One request, followed in depth: the same program with the longer answers.
ReceiveOne(m) == msgs = <<>> /\ Receive(m)

NextDeep ==
    \/ \E d \in TickDeltas : Tick(d)
    \/ \E typed \in TypedKeys : SaveOptions(typed)
    \/ \E m \in Messages : ReceiveOne(m)
    \/ \E i \in MsgIds : Start(i)
    \/ \E i \in MsgIds : CacheGet(i)
    \/ \E i \in MsgIds : KeyGet(i)
    \/ \E i \in MsgIds, res \in GsbResponsesDeep : GsbResponse(i, res)
    \/ \E i \in MsgIds : MbWake(i)
    \/ \E i \in MsgIds, res \in MbResponsesDeep : MbResponse(i, res)
    \/ \E i \in MsgIds, res \in AbResponsesDeep : AbResponse(i, res)
    \/ \E i \in MsgIds : StorageSetDone(i)
    \/ \E i \in MsgIds : Return(i)

SpecDeep == Init /\ [][NextDeep]_vars

\* The key theory on its own: keyToCamelot is called once on arguments drawn
\* from ProbeKeys and ProbeModes, while the worker is idle.
major == <<"m","a","j","o","r">>
minor == <<"m","i","n","o","r">>

\* the 12 normalized note names, in semitones from C
Chromatic ==
    << <<"C">>, <<"C","#">>, <<"D">>, <<"D","#">>, <<"E">>, <<"F">>,
       <<"F","#">>, <<"G">>, <<"G","#">>, <<"A">>, <<"A","#">>, <<"B">> >>

NoteNames == {Chromatic[n] : n \in 1..12}

\* Db, Eb, Gb, Ab, Bb
FlatNames == {<<"D","b">>, <<"E","b">>, <<"G","b">>, <<"A","b">>, <<"B","b">>}

\* key arguments: the note names, their spellings in lower case, with Unicode
\* accidentals and with blanks, and strings that name no note of the tables
ProbeKeys ==
    NoteNames \cup FlatNames \cup
    { <<"c">>, <<"f","#">>, <<"d","b">>, <<"b","b">>, <<"B","B">>, <<"a","B">>,
      <<"D",FlatSign>>, <<"e",FlatSign>>, <<"F",SharpSign>>, <<" ","A","b"," ">>,
      <<"\t","G">>, <<"C","b">>, <<"F","b">>, <<"f",FlatSign>>, <<"E","#">>,
      <<"B","#">>, <<"H">>, <<"C","#","#">>, <<"D","o">>, <<"C"," ","#">>,
      <<>>, Null, Undefined }

ProbeModes ==
    { major, minor, <<"M","a","j","o","r">>, <<"M","I","N","O","R">>,
      <<" ","m","a","j","o","r">>, <<"d","o","r","i","a","n">>, <<"m">>, <<>>,
      Null, Undefined }

\* the worker has just started, nothing is cached and no message has arrived
Idle ==
    /\ clock = StartTime
    /\ lastMbRequestAt = 0
    /\ storage = [k \in Keys |-> NullRec]
    /\ apiKey = <<>>
    /\ msgs = <<>>
    /\ pc = [i \in MsgIds |-> "none"]
    /\ loc = [i \in MsgIds |-> InitLoc]
    /\ settled = [i \in MsgIds |-> "none"]
    /\ responses = <<>>
    /\ inflight = {}
    /\ effects = [i \in MsgIds |-> InitEffects]
    /\ last = NoLast
    /\ hist = [i \in MsgIds |-> [backlog |-> 0, outcome |-> "none", cacheKey |-> Undefined]]
    /\ answer = NoAnswer
    /\ mbLast = NullNum
    /\ pbLast = NullNum

InitKeys ==
    /\ Idle
    /\ probe \in [key : ProbeKeys, mode : ProbeModes, done : {FALSE}, result : {Undefined}]

\* keyToCamelot(key, mode) is called and returns
CallKeyToCamelot ==
    /\ ~probe.done
    /\ probe' = [probe EXCEPT !.done = TRUE, !.result = keyToCamelot(probe.key, probe.mode)]
    /\ UNCHANGED <<clock, lastMbRequestAt, storage, apiKey, msgs, pc, loc, settled,
                   responses, inflight, effects, last, hist, answer, mbLast, pbLast>>

NextKeys == CallKeyToCamelot

SpecKeys == InitKeys /\ [][NextKeys]_vars

\* Provider A on its own: lookupViaGetSongBpm is called once for a title, an
\* artist, a stored API key and an answer of the search endpoint.
ProbeTitles == {<<"a">>, <<"b">>, <<"a"," ","b">>}
ProbeArtists == {<<"x">>, <<"y">>}

InitGsb ==
    /\ Idle
    /\ probe \in [title : ProbeTitles, artist : ProbeArtists, stored : TypedKeys \cup {Undefined},
                   res : GsbResponsesDeep \ {NetworkError}, done : {FALSE},
                   result : {NullRec}]

CallLookupViaGetSongBpm ==
    /\ ~probe.done
    /\ probe' = [probe EXCEPT !.done = TRUE,
                              !.result = lookupViaGetSongBpm(probe.stored, probe.res,
                                                             probe.title, probe.artist)]
    /\ UNCHANGED <<clock, lastMbRequestAt, storage, apiKey, msgs, pc, loc, settled,
                   responses, inflight, effects, last, hist, answer, mbLast, pbLast>>

NextGsb == CallLookupViaGetSongBpm

SpecGsb == InitGsb /\ [][NextGsb]_vars

(***************************************************************************)
(* Properties.                                                             *)
(***************************************************************************)
Answered(i) == \E n \in 1..Len(responses) : responses[n] = i
Running(i) == pc[i] \notin {"none", "queued", "done"}
Resolved(i) == hist[i].cacheKey # Undefined

\* C1: of two accepted messages, no step of the later one's resolution happens
\* before the earlier one's response has been sent; at most one resolution runs
\* and at most one provider request is in flight at any time; the responses are
\* sent in arrival order.
C1_SerialQueue ==
    /\ \A i, j \in MsgIds :
          (i < j /\ pc[j] \notin {"none", "queued"}) => (Answered(i) /\ pc[i] = "done")
    /\ Cardinality({i \in MsgIds : Running(i)}) <= 1
    /\ Cardinality(inflight) <= 1
    /\ \A n \in 1..Len(responses) : responses[n] = n

\* message 2 was queued before message 1 started, message 1 has been answered
\* and a provider request of message 2 is in flight
C1_Witness ==
    /\ hist[1].backlog = 2
    /\ responses = <<1>>
    /\ \E r \in inflight : r.msg = 2

\* C2: a resolution that throws answers {ok: false, error} and leaves the chain
\* usable: its promise is fulfilled, so the request queued behind it can start,
\* and every finished request has been answered, in order.
C2_FailureKeepsChain ==
    /\ \A i \in MsgIds :
          hist[i].outcome = "failed" =>
             /\ settled[i] = "fulfilled"
             /\ Answered(i)
             /\ last.msg = i =>
                   (last.payload.ok = FALSE /\ "error" \in DOMAIN last.payload)
    /\ \A j \in MsgIds :
          (pc[j] = "queued" /\ \A i \in 1..(j - 1) : pc[i] = "done") => CanStart(j)
    /\ \A j \in MsgIds : pc[j] = "done" => Answered(j)
    /\ \A n \in 1..Len(responses) : responses[n] = n

\* message 2 was queued behind message 1, whose resolution threw, and has been
\* answered after it
C2_Witness ==
    /\ hist[1].outcome = "failed"
    /\ hist[1].backlog = 2
    /\ last.msg = 2
    /\ responses = <<1, 2>>

\* C3: when two requests for one cacheKey were both submitted before the first
\* started and the first ended by caching a record, the second returns that
\* record from the cache: it asks no provider and writes nothing.
C3_SecondServedFromCache ==
    \A i, j \in MsgIds :
       (/\ i < j
        /\ last.msg = j
        /\ Resolved(j)
        /\ hist[i].cacheKey = hist[j].cacheKey
        /\ hist[i].backlog >= j
        /\ hist[i].outcome = "cached")
       => /\ hist[j].outcome = "fromCache"
          /\ last.effects.asked = {}
          /\ last.effects.writes = 0
          /\ last.payload = [ok |-> TRUE, data |-> storage[hist[j].cacheKey]]
          /\ last.payload.data = last.effects.seen

\* both requests for K1 were queued before the first started; the first asked a
\* provider and cached a record, the second was answered with it
C3_Witness ==
    /\ hist[1].backlog = 2
    /\ hist[1].outcome = "cached"
    /\ hist[1].cacheKey = K1
    /\ hist[2].cacheKey = K1
    /\ last.msg = 2
    /\ hist[2].outcome = "fromCache"

\* C4: resolving a cacheKey whose cached record is fresh (now - cachedAt less
\* than 30 days) returns exactly that record, hit or recorded miss, asks no
\* provider and writes nothing to the cache.
C4_FreshServedFromCache ==
    /\ (/\ last.msg # 0
        /\ last.effects.seen # NullRec
        /\ (last.now - last.effects.seen.cachedAt) < CACHE_TTL_MS)
       => /\ hist[last.msg].outcome = "fromCache"
          /\ last.payload = [ok |-> TRUE, data |-> last.effects.seen]
          /\ last.effects.asked = {}
          /\ last.effects.writes = 0
          /\ storage[last.request.cacheKey] = last.effects.seen
    /\ \A i \in MsgIds :
          (/\ Running(i)
           /\ effects[i].seen # NullRec
           /\ (loc[i].now - effects[i].seen.cachedAt) < CACHE_TTL_MS)
          => FALSE

\* a recorded miss one interval short of 30 days old has been returned from the cache
C4_Witness ==
    /\ last.msg # 0
    /\ hist[last.msg].outcome = "fromCache"
    /\ last.payload.data.camelot = Null
    /\ last.now - last.payload.data.cachedAt = CACHE_TTL_MS - MB_MIN_INTERVAL_MS

\* C5: a cached record with now - cachedAt of 30 days or more (exactly 30 days
\* included) is treated as absent: the providers are asked again, the stale
\* record is never returned, and a resolution that completes replaces it by the
\* new result with a new cachedAt.
C5_StaleTreatedAsAbsent ==
    (/\ last.msg # 0
     /\ last.effects.seen # NullRec
     /\ (last.now - last.effects.seen.cachedAt) >= CACHE_TTL_MS)
    => /\ hist[last.msg].outcome \in {"cached", "failed"}
       /\ last.effects.asked # {}
       /\ last.payload.ok =>
             /\ last.payload.data # last.effects.seen
             /\ storage[last.request.cacheKey] = last.payload.data
             /\ last.payload.data.cachedAt = last.now
             /\ last.payload.data.cachedAt > last.effects.seen.cachedAt

\* a record exactly 30 days old was read and has been replaced by a new result
C5_Witness ==
    /\ last.msg # 0
    /\ last.effects.seen # NullRec
    /\ last.now - last.effects.seen.cachedAt = CACHE_TTL_MS
    /\ hist[last.msg].outcome = "cached"
    /\ storage[last.request.cacheKey] = last.payload.data

\* C6: every outcome of a resolution that was not served from the cache is in
\* the cache under its cacheKey before the response is sent, and the record sent
\* is the record stored, with cachedAt set.
C6_OutcomeCachedBeforeResponse ==
    /\ \A i \in MsgIds :
          pc[i] = "respond" =>
             /\ storage[loc[i].cacheKey] = loc[i].out
             /\ effects[i].writes = 1
             /\ loc[i].out.cachedAt = loc[i].now
    /\ (/\ last.msg # 0
        /\ Resolved(last.msg)
        /\ last.payload.ok
        /\ hist[last.msg].outcome # "fromCache")
       => /\ hist[last.msg].outcome = "cached"
          /\ storage[last.request.cacheKey] = last.payload.data
          /\ last.effects.writes = 1
          /\ last.payload.data.cachedAt = last.now

\* the first resolution cached a Provider A hit and the second, after three
\* searches without candidates, has been answered with the miss it cached
C6_Witness ==
    /\ hist[1].outcome = "cached"
    /\ hist[1].cacheKey # hist[2].cacheKey
    /\ "provider" \in DOMAIN storage[hist[1].cacheKey]
    /\ last.msg = 2
    /\ hist[2].outcome = "cached"
    /\ last.payload.data.camelot = Null
    /\ last.payload.data.mbid = Null
    /\ storage[hist[2].cacheKey] = last.payload.data

NewRequests == inflight' \ inflight

\* C7: any two consecutive requests to the MusicBrainz search are started at
\* least 1100 ms apart, within one resolution and from one resolution to the next.
C7_MbSpacing ==
    [][\A r \in NewRequests :
          r.service = "musicbrainz" =>
             /\ mbLast = NullNum \/ clock' - mbLast >= MB_MIN_INTERVAL_MS
             /\ mbLast' = clock']_vars

\* the second search of a resolution is in flight, sent when the sleep ended,
\* exactly 1100 ms after the first
C7_Witness ==
    \E r \in inflight :
       /\ r.service = "musicbrainz"
       /\ r.q = 2
       /\ mbLast = loc[r.msg].wakeAt
       /\ clock = mbLast

ProviderB == {"musicbrainz", "acousticbrainz"}

\* C8, as claimed: every Provider B request, search or audio features, starts at
\* least 1100 ms after the one before it and updates lastMbRequestAt.
C8_AllProviderBLimited ==
    [][\A r \in NewRequests :
          r.service \in ProviderB =>
             /\ pbLast = NullNum \/ clock' - pbLast >= MB_MIN_INTERVAL_MS
             /\ lastMbRequestAt' = clock']_vars

\* C8, amended: a request to the audio-features service does not pass through
\* the rate limiter: it is sent in the step in which the answer before it
\* arrived and leaves lastMbRequestAt unchanged; a search request starts at
\* least 1100 ms after the search before it and sets lastMbRequestAt.
C8_OnlySearchLimited ==
    [][\A r \in NewRequests :
          /\ r.service = "acousticbrainz" =>
                /\ lastMbRequestAt' = lastMbRequestAt
                /\ pc[r.msg] \in {"mbFetch", "abFetch"}
                /\ clock' = clock
          /\ r.service = "musicbrainz" =>
                /\ lastMbRequestAt' = clock'
                /\ mbLast = NullNum \/ clock' - mbLast >= MB_MIN_INTERVAL_MS]_vars

\* the second submission of a candidate is being fetched in the same instant in
\* which the search was sent
C8_Witness ==
    \E r \in inflight :
       /\ r.service = "acousticbrainz"
       /\ r.n = 1
       /\ pbLast = lastMbRequestAt

\* C9, as claimed: a non-success status of any provider is never followed by a
\* failure payload.
C9_StatusNeverFails ==
    (answer.kind = "status" /\ last.msg # 0) => last.payload.ok

\* C9, amended: a non-success status of the Provider A search or of the
\* audio-features service counts as no data and the resolution goes on (to the
\* search; to the next candidate or the cached miss); a non-success status of a
\* search query raises `MusicBrainz HTTP <status>`: the resolution ends in
\* {ok: false, error} and nothing is cached.
C9_OnlySearchStatusFails ==
    /\ (answer.kind = "status" /\ answer.service = "getsongbpm") =>
          /\ last.msg = 0
          /\ \E i \in MsgIds : pc[i] \in {"mbSleep", "mbFetch"}
    /\ (answer.kind = "status" /\ answer.service = "acousticbrainz") =>
          \/ /\ last.msg = 0
             /\ \E i \in MsgIds : pc[i] \in {"abFetch", "cacheSet", "respond"}
          \/ /\ last.msg # 0
             /\ last.payload.ok
             /\ last.payload.data.camelot = Null
             /\ storage[last.request.cacheKey] = last.payload.data
    /\ (answer.kind = "status" /\ answer.service = "musicbrainz") =>
          /\ last.msg # 0
          /\ last.payload = [ok |-> FALSE,
                             error |-> [message |-> "MusicBrainz HTTP", status |-> 503]]
          /\ last.effects.writes = 0
          /\ storage[last.request.cacheKey] = last.effects.seen

\* a search answered 503 and the request has been answered {ok: false}
C9_Witness ==
    /\ answer.service = "musicbrainz"
    /\ answer.kind = "status"
    /\ last.msg # 0
    /\ ~last.payload.ok

BlankRequest(r) == Falsy(r.title) \/ Falsy(r.artist) \/ Falsy(r.cacheKey)

\* C10, as claimed: a request with title, artist or cacheKey missing or blank
\* never waits in the queue while an earlier resolution is running.
C10_BlankNeverWaits ==
    \A i, j \in MsgIds :
       (i < j /\ pc[j] = "queued" /\ Running(i))
       => ~Incomplete(normalizeWhitespace(msgs[j].title),
                      normalizeWhitespace(msgs[j].artist), msgs[j].cacheKey)

\* C10, amended: such a request is answered {ok: true, data: null} by its
\* continuation in the serial queue, after every earlier request has been
\* answered, and it reads no cache and asks no provider.
C10_BlankAnsweredInTurn ==
    /\ (last.msg # 0 /\ BlankRequest(last.request)) =>
          /\ last.payload = [ok |-> TRUE, data |-> NullRec]
          /\ last.effects = InitEffects
          /\ hist[last.msg].outcome = "null"
          /\ \A i \in 1..(last.msg - 1) : pc[i] = "done" /\ Answered(i)
    /\ \A j \in MsgIds :
          (pc[j] = "done" /\ hist[j].outcome = "null") => ~Resolved(j)

\* message 2, with a part missing, arrived before message 1 started and was
\* answered null only after the resolution of message 1 had ended
C10_Witness ==
    /\ hist[1].backlog = 2
    /\ hist[1].outcome \in {"cached", "failed"}
    /\ last.msg = 2
    /\ BlankRequest(last.request)
    /\ responses = <<1, 2>>

\* C11: in every resolution Provider A is consulted before Provider B, and a
\* request to the recording search or to the audio-features service is issued
\* only if Provider A returned null in that resolution; a non-null result of
\* Provider A is cached and returned with mbid and score null, and no Provider B
\* request is made.
C11_ProviderAFirst ==
    /\ \A i \in MsgIds :
          /\ (effects[i].asked \cap ProviderB # {} \/ pc[i] \in {"mbSleep", "mbFetch", "abFetch"})
             => effects[i].gsb = NullRec
          /\ (\E r \in inflight : r.msg = i /\ r.service \in ProviderB)
             => effects[i].gsb = NullRec
          /\ (Running(i) /\ effects[i].gsb \notin {NotYet, NullRec})
             => /\ pc[i] \in {"cacheSet", "respond"}
                /\ effects[i].asked \cap ProviderB = {}
                /\ loc[i].out = gsbOut(effects[i].gsb, loc[i].now)
    /\ (last.msg # 0 /\ last.effects.asked \cap ProviderB # {})
       => last.effects.gsb = NullRec
    /\ (last.msg # 0 /\ last.effects.gsb \notin {NotYet, NullRec})
       => /\ last.effects.asked = {"getsongbpm"}
          /\ last.payload = [ok |-> TRUE, data |-> gsbOut(last.effects.gsb, last.now)]
          /\ last.payload.data.mbid = Null
          /\ last.payload.data.score = NullNum
          /\ storage[last.request.cacheKey] = last.payload.data

\* one request was answered with the Provider A hit it cached, and the next one,
\* for which Provider A had nothing, has a Provider B request in flight
C11_Witness ==
    /\ hist[1].outcome = "cached"
    /\ "provider" \in DOMAIN storage[hist[1].cacheKey]
    /\ storage[hist[1].cacheKey].cachedAt >= StartTime
    /\ \E r \in inflight : r.msg = 2 /\ r.service = "musicbrainz"
    /\ effects[2].asked = {"getsongbpm", "musicbrainz"}

\* C12: every record a resolution produces carries a provider field naming
\* its origin: "getsongbpm" for a Provider A hit, "musicbrainz" for a Provider B
\* hit, and null for a miss, whose camelot, key and mode are null as well.
C12_ProviderNamesOrigin ==
    \A i \in MsgIds :
       pc[i] \in {"cacheSet", "respond"} =>
          LET out == loc[i].out
          IN  /\ "provider" \in DOMAIN out
              /\ out.provider =
                    (IF effects[i].gsb \notin {NotYet, NullRec}
                     THEN <<"g","e","t","s","o","n","g","b","p","m">>
                     ELSE IF out.key # Null
                     THEN <<"m","u","s","i","c","b","r","a","i","n","z">>
                     ELSE Null)
              /\ out.provider = Null =>
                    (out.camelot = Null /\ out.key = Null /\ out.mode = Null)

Digits == <<"0","1","2","3","4","5","6","7","8","9">>
DigitValue(c) == IndexIn(Digits, c) - 1

\* a code of the wheel is a number of 1..12 followed by A or B
IsCamelotCode(code) ==
    /\ code \in Seq({"0","1","2","3","4","5","6","7","8","9","A","B"})
    /\ Len(code) \in {2, 3}
    /\ code[Len(code)] \in {"A", "B"}
    /\ \A n \in 1..(Len(code) - 1) : code[n] \in DigitChars
    /\ code[1] # "0"
    /\ Len(code) = 3 => (code[1] = "1" /\ code[2] \in {"0", "1", "2"})

CamelotNumber(code) ==
    IF Len(code) = 2 THEN DigitValue(code[1])
    ELSE 10 * DigitValue(code[1]) + DigitValue(code[2])

CamelotLetter(code) == code[Len(code)]

\* the note n semitones above the note k of Chromatic
Transpose(k, n) == Chromatic[((IndexIn(Chromatic, k) - 1 + n) % 12) + 1]

\* C13: for each of the 12 normalized note names and each of major and minor,
\* keyToCamelot returns the code of the canonical wheel: a number of 1..12 with B
\* for major and A for minor, C major = 8B and A minor = 8A, a fifth up adds 1 to
\* the number (12 is followed by 1), a major key shares its number with its
\* relative minor, and the 24 codes are pairwise distinct.
C13_CanonicalWheel ==
    (probe.done /\ probe.key \in NoteNames /\ probe.mode \in {major, minor}) =>
       /\ IsCamelotCode(probe.result)
       /\ CamelotLetter(probe.result) = (IF probe.mode = major THEN "B" ELSE "A")
       /\ (probe.key = <<"C">> /\ probe.mode = major) => probe.result = <<"8","B">>
       /\ (probe.key = <<"A">> /\ probe.mode = minor) => probe.result = <<"8","A">>
       /\ CamelotNumber(keyToCamelot(Transpose(probe.key, 7), probe.mode))
             = (CamelotNumber(probe.result) % 12) + 1
       /\ probe.mode = major =>
             keyToCamelot(Transpose(probe.key, 9), minor)
                = SubSeq(probe.result, 1, Len(probe.result) - 1) \o <<"A">>
       /\ \A k \in NoteNames, m \in {major, minor} :
             (k # probe.key \/ m # probe.mode) => keyToCamelot(k, m) # probe.result
       /\ Cardinality({keyToCamelot(k, m) : k \in NoteNames, m \in {major, minor}}) = 24

\* keyToCamelot("F#", "major") has returned "2B"
C13_Witness ==
    /\ probe.done
    /\ probe.key = <<"F","#">>
    /\ probe.mode = major
    /\ probe.result = <<"2","B">>

\* the forms of a search query
TitleQuoted(query) == Len(query) >= 2 /\ query[1] = "recording:" /\ query[2] = "\""
HasArtist(query) == \E n \in 1..Len(query) : query[n] = "artist:"
ArtistQuoted(query) ==
    \E n \in 1..(Len(query) - 1) : query[n] = "artist:" /\ query[n + 1] = "\""

\* the recordings of an answer that have an identifier and reach the score floor
Usable(res) ==
    {n \in 1..Len(res.recordings) :
        /\ ~Falsy(res.recordings[n].id)
        /\ res.recordings[n].score >= MUSICBRAINZ_MIN_SCORE}

\* list is the best (at most six) usable recordings of the answer res, best first
BestOf(list, res) ==
    /\ Len(list) = (IF Cardinality(Usable(res)) < 6 THEN Cardinality(Usable(res)) ELSE 6)
    /\ \A c \in 1..Len(list) :
          \E n \in Usable(res) :
             /\ res.recordings[n].id = list[c].mbid
             /\ res.recordings[n].score = list[c].score
    /\ \A n \in Usable(res) :
          \/ \E c \in 1..Len(list) : list[c].mbid = res.recordings[n].id
          \/ \A c \in 1..Len(list) : list[c].score >= res.recordings[n].score

\* C14: the search sends its queries in the order (a) quoted title and quoted
\* artist, (b) quoted title and unquoted artist, (c) title only, at most three of
\* them, each only after the one before it yielded no usable recording, and none
\* after the first that did; the list it returns holds only entries with an
\* identifier and a score of 60 or more, in non-increasing score order, at most
\* six, all taken from the answer to that one query.
C14_SearchLadder ==
    [][\A i \in MsgIds :
          /\ \A r \in NewRequests :
                (r.msg = i /\ r.service = "musicbrainz") =>
                   /\ r.q \in 1..3
                   /\ r.q = loc'[i].q
                   /\ loc'[i].candidates = <<>>
                   /\ TitleQuoted(r.query)
                   /\ HasArtist(r.query) = (r.q \in {1, 2})
                   /\ ArtistQuoted(r.query) = (r.q = 1)
          /\ (loc'[i].q # loc[i].q /\ pc'[i] # "done") =>
                /\ loc'[i].q = loc[i].q + 1
                /\ loc[i].q = 0 => pc[i] \in {"keyGet", "gsbFetch"}
                /\ loc[i].q > 0 =>
                      /\ pc[i] = "mbFetch"
                      /\ answer' = [service |-> "musicbrainz", kind |-> "ok", hit |-> FALSE]
          /\ (loc[i].candidates # <<>> /\ pc'[i] # "done") =>
                /\ loc'[i].candidates = loc[i].candidates
                /\ loc'[i].q = loc[i].q
                /\ \A r \in NewRequests : r.service # "musicbrainz"
          /\ (loc[i].candidates = <<>> /\ loc'[i].candidates # <<>>) =>
                /\ pc[i] = "mbFetch"
                /\ \A c \in 1..Len(loc'[i].candidates) :
                      /\ ~Falsy(loc'[i].candidates[c].mbid)
                      /\ loc'[i].candidates[c].score >= MUSICBRAINZ_MIN_SCORE
                      /\ c > 1 => loc'[i].candidates[c - 1].score >= loc'[i].candidates[c].score
                /\ Len(loc'[i].candidates) <= 6
                /\ \E res \in MbResponsesDeep \ {NetworkError} :
                      res.ok /\ BestOf(loc'[i].candidates, res)]_vars

\* the third query was answered with more than six usable recordings and the
\* best six are the candidates
C14_Witness ==
    \E i \in MsgIds :
       /\ loc[i].q = 3
       /\ Len(loc[i].candidates) = 6
       /\ loc[i].candidates[1].score = 90
       /\ loc[i].candidates[6].score = 61
       /\ pc[i] = "abFetch"

\* the requests this step takes the answer of
AnsweredRequests == inflight \ inflight'

\* C15: the tonal lookup of a candidate requests the submissions 0, 1, 2 in that
\* order, each at most once; a 404 or other non-success answer ends it with null
\* and no further submission of that candidate is requested; an answer without
\* both key and scale moves to the next submission; the first submission with
\* both is returned and no later one is requested.
C15_SubmissionLadder ==
    [][/\ \A r \in NewRequests :
             r.service = "acousticbrainz" =>
                /\ r.n \in 0..2
                /\ r.ci \in 1..Len(loc'[r.msg].candidates)
                /\ r.mbid = loc'[r.msg].candidates[r.ci].mbid
                /\ \/ r.n = 0 /\ r.ci = loc[r.msg].ci + 1
                   \/ r.n = loc[r.msg].n + 1 /\ r.ci = loc[r.msg].ci
       /\ \A r \in AnsweredRequests :
             r.service = "acousticbrainz" =>
                /\ answer'.service = "acousticbrainz"
                /\ answer'.kind \in {"status", "network"} =>
                      \A r2 \in NewRequests : r2.ci > r.ci
                /\ answer'.kind = "network" => NewRequests = {}
                /\ (answer'.kind = "ok" /\ answer'.hit) =>
                      /\ NewRequests = {}
                      /\ pc'[r.msg] = "cacheSet"
                      /\ loc'[r.msg].out.mbid = r.mbid
                /\ (answer'.kind = "ok" /\ ~answer'.hit /\ r.n < 2) =>
                      \E r2 \in NewRequests :
                         /\ NewRequests = {r2}
                         /\ r2.service = "acousticbrainz"
                         /\ r2.mbid = r.mbid
                         /\ r2.n = r.n + 1
                /\ (answer'.kind = "ok" /\ ~answer'.hit /\ r.n = 2) =>
                      \A r2 \in NewRequests : r2.ci > r.ci]_vars

\* the first candidate was given up and the third submission of the second is
\* being fetched
C15_Witness ==
    \E r \in inflight :
       /\ r.service = "acousticbrainz"
       /\ r.ci = 2
       /\ r.n = 2
       /\ answer = [service |-> "acousticbrainz", kind |-> "ok", hit |-> FALSE]

\* C16: Provider B tries the candidates in descending-score order and returns a
\* hit for the first whose tonal lookup succeeds, with that candidate's mbid and
\* score and no tonal request for a later candidate; when no candidate yields
\* tonal data the result is a miss (camelot, key, mode null) with the mbid and
\* score of the highest-scoring candidate; without candidates the miss has mbid
\* and score null.
C16_CandidateOrder ==
    \A i \in MsgIds :
       /\ (pc[i] = "abFetch") =>
             /\ loc[i].ci \in 1..Len(loc[i].candidates)
             /\ \A r \in inflight : r.mbid = loc[i].candidates[loc[i].ci].mbid
             /\ \A c \in 2..Len(loc[i].candidates) :
                   loc[i].candidates[c - 1].score >= loc[i].candidates[c].score
       /\ (pc[i] \in {"cacheSet", "respond"} /\ effects[i].gsb = NullRec) =>
             LET out == loc[i].out
                 cands == loc[i].candidates
             IN  /\ cands = <<>> =>
                       /\ answer.service = "musicbrainz"
                       /\ out.mbid = Null /\ out.score = NullNum
                       /\ out.camelot = Null /\ out.key = Null /\ out.mode = Null
                 /\ (cands # <<>> /\ answer.hit) =>
                       /\ answer.service = "acousticbrainz"
                       /\ out.mbid = cands[loc[i].ci].mbid
                       /\ out.score = cands[loc[i].ci].score
                       /\ out.key # Null /\ out.mode # Null
                 /\ (cands # <<>> /\ ~answer.hit) =>
                       /\ answer.service = "acousticbrainz"
                       /\ loc[i].ci = Len(cands)
                       /\ out.mbid = cands[1].mbid
                       /\ out.score = cands[1].score
                       /\ \A c \in 1..Len(cands) : out.score >= cands[c].score
                       /\ out.camelot = Null /\ out.key = Null /\ out.mode = Null

\* the first two candidates gave no tonal data, the third did, and the hit about
\* to be sent carries the third candidate's mbid and score
C16_Witness ==
    \E i \in MsgIds :
       /\ pc[i] = "respond"
       /\ Len(loc[i].candidates) = 6
       /\ loc[i].ci = 3
       /\ loc[i].out.mbid = <<"m","8">>
       /\ loc[i].out.score = 75
       /\ loc[i].out.camelot = <<"3","B">>

\* the place of result n of the answer in the ranking: one more than the
\* number of results that score higher, or the same and are listed earlier
RankPos(items, n, title, artist) ==
    1 + Cardinality({m \in 1..Len(items) :
                        \/ FracLess(gsbScore(items[n], title, artist),
                                    gsbScore(items[m], title, artist))
                        \/ /\ m < n
                           /\ ~FracLess(gsbScore(items[m], title, artist),
                                        gsbScore(items[n], title, artist))})

\* the results among the five highest-ranked whose key string parses
ParsingTopFive(items, title, artist) ==
    {n \in 1..Len(items) :
        /\ RankPos(items, n, title, artist) <= 5
        /\ parseGetsongKeyOf(items[n].key_of) # NullRec}

\* C17: Provider A ranks the results by 0.7 * title overlap + 0.3 * artist
\* overlap, descending, and returns the key of the first result, among the five
\* highest-ranked only, whose key string parses; a result ranked sixth or lower
\* is never returned; it returns null when none of the five parses, when the
\* result list is empty and when no credential is configured.
C17_TopFiveFirstParsed ==
    probe.done =>
       LET items == probe.res.search
           top == ParsingTopFive(items, probe.title, probe.artist)
       IN  IF trim(OrEmpty(probe.stored)) = <<>> \/ items = <<>> \/ top = {}
           THEN probe.result = NullRec
           ELSE \E w \in top :
                   /\ \A n \in top : RankPos(items, w, probe.title, probe.artist)
                                        <= RankPos(items, n, probe.title, probe.artist)
                   /\ probe.result # NullRec
                   /\ probe.result.providerId = OrNull(items[w].id)
                   /\ probe.result.key = parseGetsongKeyOf(items[w].key_of).key
                   /\ probe.result.mode = parseGetsongKeyOf(items[w].key_of).scale
                   /\ probe.result.provider = <<"g","e","t","s","o","n","g","b","p","m">>

\* six results of which only the one ranked sixth has a usable key string:
\* Provider A has returned null
C17_Witness ==
    /\ probe.done
    /\ probe.stored = <<" ","k","1"," ">>
    /\ Len(probe.res.search) = 6
    /\ \E n \in 1..6 :
          /\ parseGetsongKeyOf(probe.res.search[n].key_of) # NullRec
          /\ RankPos(probe.res.search, n, probe.title, probe.artist) = 6
    /\ probe.result = NullRec

\* a recognized note name: one of the 12 sharp-spelled names or of the five
\* flat spellings, in any case and with an ASCII or a Unicode accidental
RecognizedNote(key) ==
    /\ ~Falsy(key)
    /\ LET k == toUpperCase(ReplaceChar(ReplaceChar(normalizeWhitespace(key),
                                                     {FlatSign}, "b"), {SharpSign}, "#"))
       IN  k \in NoteNames \cup {toUpperCase(f) : f \in FlatNames}

\* "major" or "minor", in any case
RecognizedMode(mode) == toLowerCase(OrEmpty(mode)) \in {major, minor}

\* C18: keyToCamelot returns null whenever the mode is neither major nor minor
\* or the key is not a recognized note name; it returns a Camelot code only for
\* recognized notes.
C18_NullUnlessRecognized ==
    probe.done =>
       /\ probe.result # Null =>
             /\ IsCamelotCode(probe.result)
             /\ RecognizedNote(probe.key)
             /\ RecognizedMode(probe.mode)
       /\ ~RecognizedMode(probe.mode) => probe.result = Null

\* C19: when a resolution ends with an {ok: false} payload, every cache entry
\* is what it was when the resolution began: a failed resolution writes nothing,
\* so the next request for its cacheKey asks the providers again.
C19_FailureLeavesCache ==
    /\ [](/\ \A i \in MsgIds :
                (Running(i) /\ pc[i] # "cacheGet" /\ effects[i].writes = 0)
                => storage[loc[i].cacheKey] = effects[i].seen
          /\ (last.msg # 0 /\ ~last.payload.ok) =>
                /\ last.effects.writes = 0
                /\ storage[last.request.cacheKey] = last.effects.seen
                /\ ~isFresh(storage[last.request.cacheKey], clock)
          /\ \A i \in 1..(MaxMsgs - 1) :
                (/\ hist[i].outcome = "failed"
                 /\ pc[i + 1] = "done"
                 /\ hist[i + 1].cacheKey = hist[i].cacheKey)
                => hist[i + 1].outcome \in {"cached", "failed"})
    /\ [][/\ storage' # storage =>
                \E i \in MsgIds :
                   /\ pc[i] = "cacheSet"
                   /\ pc'[i] = "respond"
                   /\ \A k \in Keys \ {loc[i].cacheKey} : storage'[k] = storage[k]
          /\ \A i \in MsgIds :
                (hist'[i].outcome = "failed" /\ hist[i].outcome # "failed") =>
                   /\ storage' = storage
                   /\ effects[i].writes = 0
                   /\ pc[i] \notin {"cacheSet", "respond"}]_vars

\* the first resolution failed and left the stale record it had read; the
\* second, for the same cacheKey, asked the providers and replaced it
C19_Witness ==
    /\ hist[1].outcome = "failed"
    /\ hist[2].cacheKey = hist[1].cacheKey
    /\ hist[2].outcome = "cached"
    /\ last.msg = 2
    /\ last.effects.seen # NullRec
    /\ last.effects.asked # {}
    /\ storage[hist[2].cacheKey] = last.payload.data

\* the records a continuation is about to store or return, and those stored
RecordsInHand ==
    {loc[i].out : i \in {j \in MsgIds : pc[j] \in {"cacheSet", "respond"}}}
    \cup {storage[k] : k \in {c \in Keys : storage[c] # NullRec}}

\* C20, as claimed: every record with non-null key and mode has a non-null
\* camelot that is a valid code; a record is a full hit or a miss with all three
\* null.
C20_KeyModeImplyCamelot ==
    \A rec \in RecordsInHand :
       /\ (rec.key # Null /\ rec.mode # Null) =>
             (rec.camelot # Null /\ IsCamelotCode(rec.camelot))
       /\ rec.camelot = Null => (rec.key = Null /\ rec.mode = Null)

\* C20, amended: a record with a non-null camelot has a valid code, a key among
\* the 12 normalized note names and mode major or minor; a miss has camelot, key
\* and mode all null; a hit always has non-null key and mode, and its camelot is
\* null exactly when the key is not one of the 12 note names or the mode is
\* neither major nor minor.
C20_CamelotImpliesKeyMode ==
    \A rec \in RecordsInHand :
       /\ rec.camelot # Null =>
             /\ IsCamelotCode(rec.camelot)
             /\ rec.key \in NoteNames
             /\ rec.mode \in {major, minor}
       /\ (rec.key = Null \/ rec.mode = Null) =>
             (rec.camelot = Null /\ rec.key = Null /\ rec.mode = Null)
       /\ (rec.key # Null /\ rec.camelot = Null) =>
             (rec.key \notin NoteNames \/ rec.mode \notin {major, minor})
       /\ (rec.key \in NoteNames /\ rec.mode \in {major, minor}) => rec.camelot # Null

\* Provider A answered the key string "E#": the hit about to be returned has
\* key "E#", mode "major" and camelot null
C20_Witness ==
    \E i \in MsgIds :
       /\ pc[i] = "respond"
       /\ loc[i].out.key = <<"E","#">>
       /\ loc[i].out.mode = major
       /\ loc[i].out.camelot = Null
       /\ storage[loc[i].cacheKey] = loc[i].out

====
